---- MODULE Spec2Model ----
(***************************************************************************)
(* Host side of the RCP19 WebAssembly example: the two JavaScript modules  *)
(* evaluate.js (one-shot async evaluate) and evaluator.js (class Evaluator *)
(* with create() and a synchronous evaluate()), as index.js uses them.     *)
(*                                                                         *)
(* The sandbox (the compiled evaluator.wasm: alloc, free, run and its      *)
(* calls of the imported evaluator.output) is the environment: its results *)
(* are drawn from small sets.  One cell of sandbox memory holds one JSON   *)
(* token of a text; a text is a sequence of tokens.                        *)
(***************************************************************************)
EXTENDS Naturals, Sequences, FiniteSets, TLC

\* ------------------------------------------------------------------ bounds
\* async callers: one-shot evaluate() calls and Evaluator.create() calls
MaxTasks == 2
\* synchronous evaluate sessions started in one run of the process
MaxSessions == 2
\* invocations of evaluator.output the sandbox makes during one run()
MaxOutputs == 2
\* nesting depth of evaluate sessions (re-entry from a toJSON of the caller)
MaxDepth == 2

Tasks == 1..MaxTasks
\* the two modules of the repository, each with its own `file` and cache
Modules == {"evaluate", "evaluator"}

\* --------------------------------------------------------------- JS values
\* a primitive JavaScript value: its type and its text
Leaf(t, s) == [t |-> t, s |-> s]
Undefined == Leaf("undefined", "")
Null == Leaf("null", "")

\* a lexical token of a JSON text
Tok(k, v) == [k |-> k, v |-> v]
LBrace == Tok("p", "{")
RBrace == Tok("p", "}")
Colon == Tok("p", ":")
Comma == Tok("p", ",")

\* a variable holding a string, null or undefined (outputStr, _outputStr)
StrNull == [t |-> "null", s |-> <<>>]
StrUndefined == [t |-> "undefined", s |-> <<>>]
Str(text) == [t |-> "string", s |-> text]

\* ToString of such a variable, as JSON.parse applies it to its argument
ToText(v) ==
  IF v.t = "null" THEN <<Tok("lit", "null")>>
  ELSE IF v.t = "undefined" THEN <<Tok("id", "undefined")>>
  ELSE v.s

IsValueTok(tok) == tok.k \in {"str", "num", "lit"}

ValueOf(tok) ==
  IF tok.k = "str" THEN Leaf("string", tok.v)
  ELSE IF tok.k = "num" THEN Leaf("number", tok.v)
  ELSE IF tok.v = "null" THEN Null
  ELSE Leaf("boolean", tok.v)

NoParse == [ok |-> FALSE, obj |-> FALSE, val |-> Undefined,
            hasError |-> FALSE, error |-> Undefined,
            hasData |-> FALSE, data |-> Undefined]

EmptyObject == [NoParse EXCEPT !.ok = TRUE, !.obj = TRUE]

\* members of a flat JSON object from position i of toks, up to the closing brace
RECURSIVE ParseMembers(_, _, _)
ParseMembers(toks, i, acc) ==
  IF i + 3 > Len(toks) THEN NoParse
  ELSE IF ~(toks[i].k = "str" /\ toks[i + 1] = Colon /\ IsValueTok(toks[i + 2]))
    THEN NoParse
  ELSE
    LET key == toks[i].v
        v == ValueOf(toks[i + 2])
        acc2 == IF key = "error" THEN [acc EXCEPT !.hasError = TRUE, !.error = v]
                ELSE IF key = "data" THEN [acc EXCEPT !.hasData = TRUE, !.data = v]
                ELSE acc
    IN IF toks[i + 3] = RBrace
         THEN (IF i + 3 = Len(toks) THEN acc2 ELSE NoParse)
       ELSE IF toks[i + 3] = Comma THEN ParseMembers(toks, i + 4, acc2)
       ELSE NoParse

\* JSON.parse of a text: a literal, or a flat object of which the members
\* `data` and `error` are kept; ok = FALSE is a SyntaxError
JsonParse(toks) ==
  IF Len(toks) = 0 THEN NoParse
  ELSE IF Len(toks) = 1
    THEN (IF IsValueTok(toks[1])
            THEN [NoParse EXCEPT !.ok = TRUE, !.val = ValueOf(toks[1])]
          ELSE NoParse)
  ELSE IF toks[1] # LBrace THEN NoParse
  ELSE IF Len(toks) = 2 THEN (IF toks[2] = RBrace THEN EmptyObject ELSE NoParse)
  ELSE ParseMembers(toks, 2, EmptyObject)

\* ToBoolean, as `if (output.error)` applies it
Truthy(v) ==
  IF v.t = "string" THEN v.s # ""
  ELSE IF v.t = "number" THEN v.s # "0"
  ELSE IF v.t = "boolean" THEN v.s = "true"
  ELSE FALSE

\* ------------------------------------------------------ texts of the sandbox
\* the response texts the sandbox hands to evaluator.output
TData1 == <<LBrace, Tok("str", "data"), Colon, Tok("num", "1"), RBrace>>
TError == <<LBrace, Tok("str", "error"), Colon, Tok("str", "bad token"), RBrace>>
TErrorEmpty == <<LBrace, Tok("str", "error"), Colon, Tok("str", ""), RBrace>>
TErrorData == <<LBrace, Tok("str", "error"), Colon, Tok("str", "bad token"), Comma,
                Tok("str", "data"), Colon, Tok("num", "1"), RBrace>>
TTruncated == <<LBrace, Tok("str", "data"), Colon>>

Texts == {TData1, TError, TErrorEmpty, TErrorData, TTruncated}

\* ------------------------------------------------------------ the request
\* an argument of evaluate: undefined (omitted), null, or an object given by
\* the tokens of its JSON text
ValUndefined == [t |-> "undefined", s |-> <<>>]
ValNull == [t |-> "null", s |-> <<>>]
ValObject(toks) == [t |-> "object", s |-> toks]
ValString(str) == [t |-> "string", s |-> <<Tok("str", str)>>]

Resource == ValObject(<<LBrace, Tok("str", "ListPrice"), Colon, Tok("num", "490000"), RBrace>>)
Previous == ValObject(<<LBrace, Tok("str", "ListPrice"), Colon, Tok("num", "500000"), RBrace>>)

Req(e, v, p) == [expression |-> e, value |-> v, previousValue |-> p]

\* calls as index.js makes them: with all three arguments (lines 10-14,
\* 55-59), and with the expression alone (lines 42, 85); and a call that
\* passes null for previousValue
Requests ==
  { Req("ListPrice < LAST ListPrice", Resource, Previous),
    Req(".NOW.", ValUndefined, ValUndefined),
    Req(".NOW.", ValUndefined, ValNull) }

\* new Date() at the call
Now == [iso |-> "2025-04-21T12:00:00.000Z", year |-> "2025", month |-> 3, date |-> 21]

months == <<"01", "02", "03", "04", "05", "06", "07", "08", "09", "10", "11", "12">>
days == <<"00", "01", "02", "03", "04", "05", "06", "07", "08", "09", "10",
          "11", "12", "13", "14", "15", "16", "17", "18", "19", "20",
          "21", "22", "23", "24", "25", "26", "27", "28", "29", "30", "31">>

\* the local date, a string of three parts: year, -month, -day; JavaScript
\* arrays index from 0
nowToDate(now) ==
  <<Tok("year", now.year), Tok("-", months[now.month + 1]), Tok("-", days[now.date + 1])>>

Member(k, v) == [key |-> k, val |-> v]

\* an envelope whose previousValue defaults to null as value does
inputJsonDefaulted(req, now) ==
  << Member("expression", ValString(req.expression)),
     Member("value", IF req.value.t # "undefined" THEN req.value ELSE ValNull),
     Member("previousValue",
            IF req.previousValue.t # "undefined" THEN req.previousValue ELSE ValNull),
     Member("now", ValString(now.iso)),
     Member("date", [t |-> "string", s |-> nowToDate(now)]) >>

\* lines 70-76 (107-113): the object inputJson
inputJson(req, now) ==
  << Member("expression", ValString(req.expression)),
     Member("value", IF req.value.t # "undefined" THEN req.value ELSE ValNull),
     Member("previousValue", req.previousValue),
     Member("now", ValString(now.iso)),
     Member("date", [t |-> "string", s |-> nowToDate(now)]) >>

JsonOf(v) == IF v.t = "null" THEN <<Tok("lit", "null")>> ELSE v.s

RECURSIVE JoinMembers(_)
JoinMembers(ms) ==
  IF Len(ms) = 0 THEN <<>>
  ELSE LET m == <<Tok("str", ms[1].key), Colon>> \o JsonOf(ms[1].val)
       IN IF Len(ms) = 1 THEN m ELSE m \o <<Comma>> \o JoinMembers(Tail(ms))

\* JSON.stringify of an object: a member whose value is undefined is left out
JsonStringify(obj) ==
  <<LBrace>> \o JoinMembers(SelectSeq(obj, LAMBDA m : m.val.t # "undefined")) \o <<RBrace>>

\* the tokens the texts of this model are made of; the byte code of a token
\* is its place in this list
Alphabet ==
  << LBrace, RBrace, Colon, Comma,
     Tok("str", "data"), Tok("str", "error"), Tok("str", "bad token"), Tok("str", ""),
     Tok("num", "1"), Tok("lit", "null"),
     Tok("str", "expression"), Tok("str", "value"), Tok("str", "previousValue"),
     Tok("str", "now"), Tok("str", "date"), Tok("str", "ListPrice"),
     Tok("num", "490000"), Tok("num", "500000"),
     Tok("str", "ListPrice < LAST ListPrice"), Tok("str", ".NOW."),
     Tok("str", "2025-04-21T12:00:00.000Z"),
     Tok("year", "2025"), Tok("-", "04"), Tok("-", "21") >>

\* what a decoder puts for bytes that are no text (U+FFFD)
Replacement == Tok("id", "U+FFFD")

Code(tok) == CHOOSE i \in 1..Len(Alphabet) : Alphabet[i] = tok

\* TextEncoder.encode: the cells of the text, one per token
Encode(text) == [i \in 1..Len(text) |-> Code(text[i])]

\* TextDecoder.decode (not fatal): bytes that are no text become U+FFFD
Decode(cells) ==
  [i \in 1..Len(cells) |->
     IF cells[i] \in 1..Len(Alphabet) THEN Alphabet[cells[i]] ELSE Replacement]

\* the bytes the sandbox can leave at the region it passes to evaluator.output
Outputs == {Encode(t) : t \in Texts}

\* ---------------------------------------------------------------- sandbox
\* the addresses alloc hands out; 0 signals exhaustion
Ptrs == {8}

\* linear memory: the byte at each address written so far; a byte never
\* written is 0
NoMemory == [a \in {} |-> 0]

\* new Uint8Array(memory.buffer, ptr, len): a view of len bytes from ptr
Uint8Array(ptr, len) == [byteOffset |-> ptr, length |-> len]

\* a copy that ignores where the view starts
setAtZero(mem, view, cells) ==
  [a \in DOMAIN mem \cup {i - 1 : i \in 1..Len(cells)} |->
     IF a < Len(cells) THEN cells[a + 1] ELSE mem[a]]

\* view.set(cells): the cells are copied to the start of the view
set(mem, view, cells) ==
  LET to == {view.byteOffset + i - 1 : i \in 1..Len(cells)}
  IN [a \in DOMAIN mem \cup to |->
        IF a \in to THEN cells[a - view.byteOffset + 1] ELSE mem[a]]

\* the len bytes at ptr, as the sandbox reads them
Region(mem, ptr, len) ==
  [i \in 1..len |-> IF ptr + i - 1 \in DOMAIN mem THEN mem[ptr + i - 1] ELSE 0]

\* ------------------------------------------------------------------ state
VARIABLES
  artifact,       \* whether evaluator.wasm exists in the working directory
  file,           \* per module: "unloaded", "read" or "missing"
  reads,          \* per module: calls of fs.readFileSync
  modulePromise,  \* per module: the cached promise (0: undefined)
  promises,       \* the promises WebAssembly.compile returned, in order
  loadCalls,      \* per module: calls of loadModule
  kind,           \* per task: "none", "oneshot" (evaluate) or "create"
  pc,             \* per task: where the async function is
  module,         \* per task: the promise loadModule returned to it
  args,           \* per task: the arguments of a one-shot evaluate
  instCalls,      \* per task: calls of WebAssembly.instantiate
  nInst,          \* sandbox instances created
  _instance,      \* per task: `instance` / `self._instance` (0: null)
  _memory,        \* per task: `memory` / `self._memory` (0: not set)
  _outputStr,     \* per task: `outputStr` / `self._outputStr`
  outstanding,    \* per task: regions of its sandbox allocated and not freed
  stack,          \* the evaluate sessions on the call stack, innermost last
  ended,          \* the session that ended in the last step, if one did
  startCall,      \* the call of evaluator.output the sandbox made while it was
                  \* being instantiated in the last step, if it made one
  nSessions       \* sessions started

cacheVars == <<modulePromise, promises, loadCalls>>
fileVars == <<artifact, file, reads>>
taskVars == <<kind, pc, module, args>>
instVars == <<instCalls, nInst, _instance, _memory>>
sessVars == <<_outputStr, outstanding, stack, nSessions>>
vars == <<artifact, file, reads, modulePromise, promises, loadCalls, kind, pc,
          module, args, instCalls, nInst, _instance, _memory, _outputStr,
          outstanding, stack, ended, startCall, nSessions>>

NoReq == Req("", ValUndefined, ValUndefined)
NoOutcome == [kind |-> "none", name |-> "", val |-> Undefined]
Return(v) == [kind |-> "return", name |-> "", val |-> v]
Throw(name, msg) == [kind |-> "throw", name |-> name, val |-> Leaf("string", msg)]

\* what is kept of a session that ended: whether it was called from another
\* session (depth > 1) or called one (reentered), its arguments, the calls it
\* made in order, the arguments and answers of alloc, the arguments of run
\* and what the region they name held when run was called, the arguments of
\* free, the calls of evaluator.output, the bytes of the last one, the memory
\* reference each found and the assignments they made to the output
\* variable, the output variable when the session began, the regions its
\* sandbox still holds, and how it ended
NoSession ==
  [id |-> 0, form |-> "none", depth |-> 0, reentered |-> FALSE, req |-> NoReq,
   calls |-> <<>>, allocArgs |-> <<>>, allocRes |-> <<>>, runArgs |-> <<>>,
   atRun |-> <<>>, freeArgs |-> <<>>, nOutput |-> 0, lastOutput |-> <<>>,
   memAtOutput |-> <<>>, slotWrites |-> 0,
   slot0 |-> StrNull, left |-> {}, outcome |-> NoOutcome]

\* a call of evaluator.output made during WebAssembly.instantiate: whose
\* callback it is and the memory reference the callback found (0: not set)
NoCall == [id |-> 0, memory |-> 0]

Init ==
  /\ artifact \in BOOLEAN
  /\ file = [m \in Modules |-> "unloaded"]
  /\ reads = [m \in Modules |-> 0]
  /\ modulePromise = [m \in Modules |-> 0]
  /\ promises = <<>>
  /\ loadCalls = [m \in Modules |-> 0]
  /\ kind = [t \in Tasks |-> "none"]
  /\ pc = [t \in Tasks |-> "idle"]
  /\ module = [t \in Tasks |-> 0]
  /\ args = [t \in Tasks |-> NoReq]
  /\ instCalls = [t \in Tasks |-> 0]
  /\ nInst = 0
  /\ _instance = [t \in Tasks |-> 0]
  /\ _memory = [t \in Tasks |-> 0]
  /\ _outputStr = [t \in Tasks |-> StrNull]
  /\ outstanding = [t \in Tasks |-> {}]
  /\ stack = <<>>
  /\ ended = NoSession
  /\ startCall = NoCall
  /\ nSessions = 0

\* ------------------------------------------------------------ module load
\* a module load that goes on when the read has failed
RequireUnchecked(m) ==
  /\ stack = <<>>
  /\ file[m] = "unloaded"
  /\ reads' = [reads EXCEPT ![m] = @ + 1]
  /\ file' = [file EXCEPT ![m] = "read"]
  /\ ended' = NoSession
  /\ startCall' = NoCall
  /\ UNCHANGED <<artifact, cacheVars, taskVars, instVars, sessVars>>

\* lines 14-22 of a module, run when it is first required: the file is read;
\* when that fails ("missing") the module throws the Error of lines 19-21
\* ("Could not find evaluator.wasm; you probably need to build it first.")
\* and exports nothing
Require(m) ==
  /\ stack = <<>>
  /\ file[m] = "unloaded"
  /\ reads' = [reads EXCEPT ![m] = @ + 1]
  /\ file' = [file EXCEPT ![m] = IF artifact THEN "read" ELSE "missing"]
  /\ ended' = NoSession
  /\ startCall' = NoCall
  /\ UNCHANGED <<artifact, cacheVars, taskVars, instVars, sessVars>>

\* loadModule without its cache test
loadModuleUncached(m) ==
  /\ loadCalls' = [loadCalls EXCEPT ![m] = @ + 1]
  /\ promises' = Append(promises, [by |-> m, st |-> "pending"])
  /\ modulePromise' = [modulePromise EXCEPT ![m] = Len(promises) + 1]

\* loadModule() of module m; its result is modulePromise'[m]
loadModule(m) ==
  /\ loadCalls' = [loadCalls EXCEPT ![m] = @ + 1]
  /\ IF modulePromise[m] # 0
       THEN UNCHANGED <<modulePromise, promises>>
       ELSE /\ promises' = Append(promises, [by |-> m, st |-> "pending"])
            /\ modulePromise' = [modulePromise EXCEPT ![m] = Len(promises) + 1]

\* the compilation behind a promise ends; reactions run once the stack is empty
CompileSettle(p, ok) ==
  /\ stack = <<>>
  /\ p \in 1..Len(promises)
  /\ promises[p].st = "pending"
  /\ promises' = [promises EXCEPT ![p].st = IF ok THEN "resolved" ELSE "rejected"]
  /\ ended' = NoSession
  /\ startCall' = NoCall
  /\ UNCHANGED <<fileVars, modulePromise, loadCalls, taskVars, instVars, sessVars>>

\* task numbers are given out in order
NextTask(t) == kind[t] = "none" /\ \A u \in Tasks : u < t => kind[u] # "none"

\* -------------------------------------------------------------- sessions
\* a session on the call stack: it is at the JSON.stringify of line 77 (115),
\* the one place where evaluate calls code of its caller (a toJSON);
\* reentered: that code has called Evaluator.evaluate
Frame(t, form, req, depth) ==
  [id |-> t, form |-> form, req |-> req, depth |-> depth, reentered |-> FALSE,
   slot0 |-> IF form = "oneshot" THEN StrUndefined ELSE _outputStr[t]]

Top == stack[Len(stack)]
\* the stack with a new session on it, called from the session on top if any
Push(f) ==
  Append(IF stack = <<>> THEN stack
         ELSE [stack EXCEPT ![Len(stack)].reentered = TRUE], f)
Pop == SubSeq(stack, 1, Len(stack) - 1)

\* an end of session that stores the output variable in one place shared by
\* all handles
ExitShared(summary, slotAfter, regions) ==
  /\ ended' = summary
  /\ startCall' = NoCall
  /\ stack' = Pop
  /\ pc' = IF Top.form = "oneshot" THEN [pc EXCEPT ![Top.id] = "done"] ELSE pc
  /\ _outputStr' = [t \in Tasks |-> slotAfter]
  /\ outstanding' = [outstanding EXCEPT ![Top.id] = regions]
  /\ UNCHANGED <<fileVars, cacheVars, kind, module, args, instVars, nSessions>>

\* the top session ends, returning to or throwing into its caller: `summary`
\* is what it did, slotAfter the output variable and regions the allocated
\* regions of its sandbox as it leaves them.  The locals and the sandbox of a
\* one-shot call are unreachable from then on
Exit(summary, slotAfter, regions) ==
  /\ ended' = summary
  /\ startCall' = NoCall
  /\ stack' = Pop
  /\ IF Top.form = "oneshot"
       THEN /\ pc' = [pc EXCEPT ![Top.id] = "done"]
            /\ _outputStr' = [_outputStr EXCEPT ![Top.id] = StrNull]
            /\ outstanding' = [outstanding EXCEPT ![Top.id] = {}]
       ELSE /\ pc' = pc
            /\ _outputStr' = [_outputStr EXCEPT ![Top.id] = slotAfter]
            /\ outstanding' = [outstanding EXCEPT ![Top.id] = regions]
  /\ UNCHANGED <<fileVars, cacheVars, kind, module, args, instVars, nSessions>>

\* ---------------------------------------------------------- evaluate.js
\* evaluate(expression, value, previousValue), line 52: up to the first await
evaluate(t, req) ==
  /\ stack = <<>>
  /\ NextTask(t)
  /\ file["evaluate"] = "read"
  /\ loadModule("evaluate")
  /\ kind' = [kind EXCEPT ![t] = "oneshot"]
  /\ pc' = [pc EXCEPT ![t] = "awaitModule"]
  /\ module' = [module EXCEPT ![t] = modulePromise'["evaluate"]]
  /\ args' = [args EXCEPT ![t] = req]
  /\ ended' = NoSession
  /\ startCall' = NoCall
  /\ UNCHANGED <<fileVars, instVars, sessVars>>

\* ---------------------------------------------------------- evaluator.js
\* Evaluator.create(), lines 45-47: up to the first await
create(t) ==
  /\ stack = <<>>
  /\ NextTask(t)
  /\ file["evaluator"] = "read"
  /\ loadModule("evaluator")
  /\ kind' = [kind EXCEPT ![t] = "create"]
  /\ pc' = [pc EXCEPT ![t] = "awaitModule"]
  /\ module' = [module EXCEPT ![t] = modulePromise'["evaluator"]]
  /\ ended' = NoSession
  /\ startCall' = NoCall
  /\ UNCHANGED <<fileVars, args, instVars, sessVars>>

\* ---------------------------------------------------------- both modules
\* the await of loadModule() ends: rejected, the async function fails;
\* resolved, it binds the imports and calls WebAssembly.instantiate
AwaitModule(t) ==
  /\ stack = <<>>
  /\ pc[t] = "awaitModule"
  /\ promises[module[t]].st # "pending"
  /\ IF promises[module[t]].st = "rejected"
       THEN /\ pc' = [pc EXCEPT ![t] = "failed"]
            /\ args' = [args EXCEPT ![t] = NoReq]
            /\ UNCHANGED instCalls
       ELSE /\ pc' = [pc EXCEPT ![t] = "awaitInstance"]
            /\ instCalls' = [instCalls EXCEPT ![t] = @ + 1]
            /\ UNCHANGED args
  /\ ended' = NoSession
  /\ startCall' = NoCall
  /\ UNCHANGED <<fileVars, cacheVars, kind, module, nInst, _instance, _memory, sessVars>>

\* WebAssembly.instantiate rejects (a link error): the async function fails
InstantiateFails(t) ==
  /\ stack = <<>>
  /\ pc[t] = "awaitInstance"
  /\ pc' = [pc EXCEPT ![t] = "failed"]
  /\ args' = [args EXCEPT ![t] = NoReq]
  /\ ended' = NoSession
  /\ startCall' = NoCall
  /\ UNCHANGED <<fileVars, cacheVars, kind, module, instVars, sessVars>>

\* a create that returns the handle without waiting for the instance
CreateReturnsEarly(t) ==
  /\ stack = <<>>
  /\ kind[t] = "create"
  /\ pc[t] = "awaitInstance"
  /\ pc' = [pc EXCEPT ![t] = "ready"]
  /\ ended' = NoSession
  /\ startCall' = NoCall
  /\ UNCHANGED <<fileVars, cacheVars, kind, module, args, instVars, sessVars>>

\* Evaluator.create, lines 60-63: the instance and its memory are stored and
\* the handle is returned
CreateReturns(t) ==
  /\ stack = <<>>
  /\ kind[t] = "create"
  /\ pc[t] = "awaitInstance"
  /\ nInst' = nInst + 1
  /\ _instance' = [_instance EXCEPT ![t] = nInst + 1]
  /\ _memory' = [_memory EXCEPT ![t] = nInst + 1]
  /\ pc' = [pc EXCEPT ![t] = "ready"]
  /\ ended' = NoSession
  /\ startCall' = NoCall
  /\ UNCHANGED <<fileVars, cacheVars, kind, module, args, instCalls, sessVars>>

\* evaluate, lines 93-113: the instance is there; its memory is captured and
\* the request is built.  outputStr (line 56) is declared and not set
EvaluateInstantiated(t) ==
  /\ stack = <<>>
  /\ kind[t] = "oneshot"
  /\ pc[t] = "awaitInstance"
  /\ nSessions < MaxSessions
  /\ nInst' = nInst + 1
  /\ _instance' = [_instance EXCEPT ![t] = nInst + 1]
  /\ _memory' = [_memory EXCEPT ![t] = nInst + 1]
  /\ pc' = [pc EXCEPT ![t] = "session"]
  /\ args' = [args EXCEPT ![t] = NoReq]
  /\ _outputStr' = [_outputStr EXCEPT ![t] = StrUndefined]
  /\ stack' = <<Frame(t, "oneshot", args[t], 1)>>
  /\ ended' = NoSession
  /\ startCall' = NoCall
  /\ nSessions' = nSessions + 1
  /\ UNCHANGED <<fileVars, cacheVars, kind, module, instCalls, outstanding>>

\* an evaluate that instantiates its sandbox anew, as the one-shot form does
HandleEvaluateInstantiating(h, req) ==
  /\ kind[h] = "create"
  /\ pc[h] = "ready"
  /\ nSessions < MaxSessions
  /\ Len(stack) < MaxDepth
  /\ instCalls' = [instCalls EXCEPT ![h] = @ + 1]
  /\ nInst' = nInst + 1
  /\ _instance' = [_instance EXCEPT ![h] = nInst + 1]
  /\ _memory' = [_memory EXCEPT ![h] = nInst + 1]
  /\ stack' = Push(Frame(h, "handle", req, Len(stack) + 1))
  /\ ended' = NoSession
  /\ startCall' = NoCall
  /\ nSessions' = nSessions + 1
  /\ UNCHANGED <<fileVars, cacheVars, taskVars, _outputStr, outstanding>>

\* Evaluator.evaluate, lines 67-76, on a handle create() returned: called from
\* the top level, or from a toJSON that JSON.stringify of another session calls
HandleEvaluate(h, req) ==
  /\ kind[h] = "create"
  /\ pc[h] = "ready"
  /\ nSessions < MaxSessions
  /\ Len(stack) < MaxDepth
  /\ stack' = Push(Frame(h, "handle", req, Len(stack) + 1))
  /\ ended' = NoSession
  /\ startCall' = NoCall
  /\ nSessions' = nSessions + 1
  /\ UNCHANGED <<fileVars, cacheVars, taskVars, instVars, _outputStr, outstanding>>

\* the calls evaluator.output can get during one run()
OutputSeqs == UNION {[1..n -> Outputs] : n \in 0..MaxOutputs}

\* lines 77-79 (115-118): JSON.stringify and TextEncoder.encode
bytes(req) == Encode(JsonStringify(inputJson(req, Now)))

\* the same, computed once for each request
bytesOf == [req \in Requests |-> bytes(req)]

\* lines 51-56 (85-87), evaluator.output: a view of the region, decoded
output(cells) == Str(Decode(cells))

outputOf == [cells \in Outputs |-> output(cells)]

\* the output variable after the sandbox has called evaluator.output with
\* each of outs in turn
RECURSIVE AfterOutputs(_, _)
AfterOutputs(slot, outs) ==
  IF outs = <<>> THEN slot ELSE AfterOutputs(outputOf[Head(outs)], Tail(outs))

\* lines 89-96 (138-147) on the value of the output variable: how evaluate ends
Result(slot) ==
  LET out == JsonParse(ToText(slot)) IN
    IF ~out.ok THEN Throw("SyntaxError", "JSON.parse")
    ELSE IF ~out.obj /\ out.val.t = "null"
      THEN Throw("TypeError", "Cannot read properties of null")
    ELSE IF out.obj /\ Truthy(out.error) THEN Throw("Error", out.error.s)
    ELSE Return(IF out.obj THEN out.data ELSE Undefined)

\* line 90: _outputStr after evaluate; it is set to null once JSON.parse has
\* returned, and kept when JSON.parse throws
Cleared(slot) == IF JsonParse(ToText(slot)).ok THEN StrNull ELSE slot

\* the values the output variable takes
Slots == {StrNull, StrUndefined} \cup {outputOf[c] : c \in Outputs}

\* Result and Cleared, computed once for each value
resultOf == [slot \in Slots |-> Result(slot)]
clearedOf == [slot \in Slots |-> Cleared(slot)]

\* calls made with one view of the memory taken ahead of alloc and kept
CallsToRunCachedView(outs) ==
  <<"view", "alloc", "write", "run">>
    \o [i \in 1..(2 * Len(outs)) |-> <<"output", "read">>[((i - 1) % 2) + 1]]

\* the calls of a session, in order, when run() is entered: alloc, the view
\* and the write of the request, run, and for each call of evaluator.output
\* the view the callback takes and its read (lines 51-55 (85-87))
CallsToRun(outs) ==
  <<"alloc", "view", "write", "run">>
    \o [i \in 1..(3 * Len(outs)) |-> <<"output", "view", "read">>[((i - 1) % 3) + 1]]

\* lines 78-86 (117-132): alloc(bytes.length) has answered ptr; the view
\* inputMem of the region and inputMem.set(bytes); the arguments of run and
\* of free, and what the region run is given holds when it is called
Transfer(req, ptr) ==
  LET inputBytes == bytesOf[req]
      inputPtr == ptr
      inputLen == Len(inputBytes)
      inputMem == Uint8Array(inputPtr, inputLen)
      mem == set(NoMemory, inputMem, inputBytes)
  IN [allocArgs |-> <<Len(inputBytes)>>,
      runArgs |-> <<inputPtr, inputLen>>,
      freeArgs |-> <<inputPtr, inputLen>>,
      atRun |-> Region(mem, inputPtr, inputLen)]

\* the same, computed once for each request and answer of alloc
transferOf == [req \in Requests, ptr \in Ptrs \cup {0} |-> Transfer(req, ptr)]

\* the assignments of lines 55 (87) to the output variable when
\* evaluator.output is called with each of outs
RECURSIVE SlotWrites(_)
SlotWrites(outs) == IF outs = <<>> THEN 0 ELSE 1 + SlotWrites(Tail(outs))

Summary(f, calls, ptr, len, freed, outs, regions, outcome) ==
  [id |-> f.id, form |-> f.form, depth |-> f.depth, reentered |-> f.reentered,
   req |-> f.req, calls |-> calls,
   allocArgs |-> IF calls = <<>> THEN <<>> ELSE transferOf[f.req, ptr].allocArgs,
   allocRes |-> IF calls = <<>> THEN <<>> ELSE <<<<ptr, len>>>>,
   runArgs |-> IF calls = <<>> THEN <<>> ELSE transferOf[f.req, ptr].runArgs,
   atRun |-> IF calls = <<>> THEN <<>> ELSE transferOf[f.req, ptr].atRun,
   freeArgs |-> freed, nOutput |-> Len(outs),
   lastOutput |-> IF outs = <<>> THEN <<>> ELSE outs[Len(outs)],
   memAtOutput |-> [i \in 1..Len(outs) |-> _memory[f.id]],
   slotWrites |-> SlotWrites(outs),
   slot0 |-> f.slot0, left |-> regions, outcome |-> outcome]

\* JSON.stringify throws (a circular value, a toJSON that throws): evaluate
\* ends at line 77 (115)
StringifyThrows ==
  /\ stack # <<>>
  /\ Exit(Summary(Top, <<>>, 0, 0, <<>>, <<>>, outstanding[Top.id],
                  Throw("TypeError", "JSON.stringify")),
          _outputStr[Top.id], outstanding[Top.id])

\* lines 77-86 (115-132), then run() traps: alloc answers ptr, the request is
\* written there, run(inputPtr, inputLen) calls evaluator.output with outs and
\* traps; the WebAssembly.RuntimeError leaves evaluate at line 86 (132)
RunTraps(ptr, outs) ==
  /\ stack # <<>>
  /\ ptr = 0 \/ (ptr \in Ptrs /\ ptr \notin outstanding[Top.id])
  /\ _memory[Top.id] # 0
  /\ LET inputLen == Len(bytesOf[Top.req])
         regions == IF ptr = 0 THEN outstanding[Top.id]
                    ELSE outstanding[Top.id] \cup {ptr}
     IN Exit(Summary(Top, CallsToRun(outs), ptr, inputLen, <<>>, outs, regions,
                     Throw("RuntimeError", "unreachable")),
             AfterOutputs(_outputStr[Top.id], outs), regions)

\* lines 77-96 (115-147), run() returning: alloc answers ptr, the request is
\* written there, run(inputPtr, inputLen) calls evaluator.output with outs and
\* returns, the region is freed, the output variable is parsed and (on a
\* handle) cleared, and evaluate throws or returns
Completes(ptr, outs) ==
  /\ stack # <<>>
  /\ ptr = 0 \/ (ptr \in Ptrs /\ ptr \notin outstanding[Top.id])
  /\ _memory[Top.id] # 0
  /\ LET inputLen == Len(bytesOf[Top.req])
         slot == AfterOutputs(_outputStr[Top.id], outs)
         regions == outstanding[Top.id] \ {ptr}
     IN Exit(Summary(Top, CallsToRun(outs) \o <<"free", "parse">>, ptr, inputLen,
                     <<transferOf[Top.req, ptr].freeArgs>>, outs, regions,
                     resultOf[slot]),
             clearedOf[slot], regions)

\* during WebAssembly.instantiate, line 60 (93), the start function of the
\* module calls evaluator.output: the callback, lines 51-55 (85-87), reads
\* memory.buffer of the memory reference, which is set at line 61 (98) only.
\* On a reference that is not set this is a TypeError: instantiate rejects and
\* the async function fails
InstantiateCallsOutput(t, cells) ==
  /\ stack = <<>>
  /\ pc[t] = "awaitInstance"
  /\ startCall' = [id |-> t, memory |-> _memory[t]]
  /\ IF _memory[t] = 0
       THEN /\ pc' = [pc EXCEPT ![t] = "failed"]
            /\ args' = [args EXCEPT ![t] = NoReq]
            /\ UNCHANGED _outputStr
       ELSE /\ _outputStr' = [_outputStr EXCEPT ![t] = output(cells)]
            /\ UNCHANGED <<pc, args>>
  /\ ended' = NoSession
  /\ UNCHANGED <<fileVars, cacheVars, kind, module, instVars, outstanding, stack,
                 nSessions>>

Next ==
  \/ \E m \in Modules : Require(m)
  \/ \E t \in Tasks, req \in Requests : evaluate(t, req)
  \/ \E t \in Tasks : create(t)
  \/ \E p \in 1..MaxTasks, ok \in BOOLEAN : CompileSettle(p, ok)
  \/ \E t \in Tasks : AwaitModule(t)
  \/ \E t \in Tasks : InstantiateFails(t)
  \/ \E t \in Tasks, cells \in Outputs : InstantiateCallsOutput(t, cells)
  \/ \E t \in Tasks : CreateReturns(t)
  \/ \E t \in Tasks : EvaluateInstantiated(t)
  \/ \E h \in Tasks, req \in Requests : HandleEvaluate(h, req)
  \/ StringifyThrows
  \/ \E ptr \in Ptrs \cup {0}, outs \in OutputSeqs : RunTraps(ptr, outs)
  \/ \E ptr \in Ptrs \cup {0}, outs \in OutputSeqs : Completes(ptr, outs)

Spec == Init /\ [][Next]_vars

\* ------------------------------------------------------------------ claims
\* the module whose loadModule a one-shot evaluate, or a create, calls
ModuleOf(k) == IF k = "oneshot" THEN "evaluate" ELSE "evaluator"
Has(calls, c) == \E i \in 1..Len(calls) : calls[i] = c
Ended == ended.form # "none"
\* the session that ended got as far as parsing the response
Parsed == Ended /\ Has(ended.calls, "parse")
\* the session that ended was called from the top level and called no other
Sequential == ended.depth = 1 /\ ~ended.reentered
CompilesBy(m) == Cardinality({p \in 1..Len(promises) : promises[p].by = m})
InFlight(h) == \E i \in 1..Len(stack) : stack[i].id = h

\* C1: every evaluate call, however it ends, has issued as many free calls as
\* alloc calls, and its one free call got the (pointer, length) alloc returned.
C1_BufferDiscipline ==
  Ended => /\ Len(ended.freeArgs) = Len(ended.allocRes)
           /\ ended.freeArgs = ended.allocRes

\* C2: on a handle the output slot is empty after every evaluate call, however
\* it ended, so that every evaluate call starts with an empty slot.
C2_SlotCleared ==
  /\ ended.form = "handle" => _outputStr[ended.id] = StrNull
  /\ \A i \in 1..Len(stack) : stack[i].form = "handle" => stack[i].slot0 = StrNull

\* C3: in a sequence of evaluate calls on a handle, one after the other, what
\* a call returns or throws after parsing is the result of the bytes
\* evaluator.output got during that call (of an empty slot when it got none),
\* never of bytes of an earlier call.
C3_NoContamination ==
  (Parsed /\ Sequential /\ ended.form = "handle") =>
    ended.outcome = Result(IF ended.nOutput = 0 THEN StrNull
                           ELSE output(ended.lastOutput))

\* C4: when run() returns and evaluator.output was not called during the call,
\* evaluate fails (ProtocolViolation) and returns no data.  The code has no
\* kinds of failure, so the claim is stated as: the call throws.
C4_ProtocolViolation ==
  (Parsed /\ Sequential /\ ended.nOutput = 0) => ended.outcome.kind = "throw"

\* C5: when alloc returns 0, evaluate fails (AllocationFailed): the request is
\* not written into sandbox memory, run() is not called and nothing is left
\* allocated.
C5_AllocationFailed ==
  (Ended /\ ended.allocRes # <<>> /\ ended.allocRes[1][1] = 0) =>
    /\ ~Has(ended.calls, "write")
    /\ ~Has(ended.calls, "run")
    /\ ended.outcome.kind = "throw"

\* C6: when the response the sandbox produced in this call has an error member
\* that is a text, evaluate throws a failure whose message is that text, also
\* when the text is empty and when a data member is there too.
C6_ErrorSurfaced ==
  (Parsed /\ ended.nOutput > 0) =>
    LET response == JsonParse(Decode(ended.lastOutput)) IN
      (response.ok /\ response.obj /\ response.hasError /\ response.error.t = "string")
        => ended.outcome = Throw("Error", response.error.s)

\* C7: within one module, however many times loadModule is called and whether
\* or not the compilation has ended, WebAssembly.compile is called once, and
\* every caller holds the one cached promise.
C7_LoadIdempotent ==
  /\ \A m \in Modules : CompilesBy(m) = IF loadCalls[m] > 0 THEN 1 ELSE 0
  /\ \A t \in Tasks : kind[t] # "none" =>
       /\ module[t] # 0
       /\ module[t] = modulePromise[ModuleOf(kind[t])]

\* C7 witness: two callers of one module's loadModule, the second having
\* called while the compilation was pending, both waiting for it.
C7_Witness ==
  \E m \in Modules :
    /\ loadCalls[m] = 2
    /\ promises[modulePromise[m]].st = "pending"
    /\ \A t \in Tasks : pc[t] = "awaitModule" /\ ModuleOf(kind[t]) = m

\* C8: in one process, over evaluate and Evaluator.create together, the
\* artifact is read at most once and compiled at most once.
C8_OncePerProcess ==
  /\ reads["evaluate"] + reads["evaluator"] <= 1
  /\ Len(promises) <= 1

\* C9: an evaluate called on a handle while another evaluate on that handle
\* has not returned is rejected (ConcurrentCallRejected): it throws and makes no
\* call of the sandbox, so that the steps of two sessions never interleave.
C9_ConcurrentRejected ==
  (ended.form = "handle" /\ InFlight(ended.id)) =>
    /\ ended.calls = <<>>
    /\ ended.outcome.kind = "throw"

\* C10, in every state: a handle create() returned has been instantiated once
\* and holds that instance and its memory; a one-shot call that reached its
\* session has instantiated once, a sandbox no other call or handle uses.
C10_OneInstance ==
  \A t \in Tasks :
    /\ pc[t] = "ready" =>
         instCalls[t] = 1 /\ _instance[t] # 0 /\ _memory[t] = _instance[t]
    /\ (kind[t] = "oneshot" /\ pc[t] \in {"session", "done"}) =>
         /\ instCalls[t] = 1
         /\ _instance[t] # 0
         /\ \A u \in Tasks \ {t} : _instance[u] # _instance[t]

\* a step of Evaluator.evaluate: one taken while a session is on the stack, or
\* the call of evaluate on a handle from the top level
HandleStep ==
  \/ stack # <<>>
  \/ stack' # <<>> /\ stack'[1].form = "handle"

\* C10, in every step: _instance and _memory of a returned handle do not
\* change, and no step of Evaluator.evaluate compiles or instantiates.
C10_Frame ==
  /\ \A h \in Tasks : pc[h] = "ready" =>
       _instance'[h] = _instance[h] /\ _memory'[h] = _memory[h]
  /\ HandleStep =>
       promises' = promises /\ nInst' = nInst /\ instCalls' = instCalls

\* C10: evaluate on a handle reuses the instance and the memory create() stored
\* and never compiles or instantiates; the one-shot evaluate instantiates one
\* new sandbox per call.
C10_Reuse == []C10_OneInstance /\ [][C10_Frame]_vars

\* C10 witness: on the one handle there is, a second evaluate call, made after
\* the first had ended, has run the sandbox and returned.
C10_Witness ==
  /\ nSessions = 2
  /\ ended.form = "handle"
  /\ Parsed /\ Sequential
  /\ ended.outcome.kind = "return"
  /\ \A t \in Tasks : kind[t] = "create" <=> t = ended.id

\* the session that ended got as far as calling run()
Ran == Ended /\ Has(ended.calls, "run")
\* the text has a member named key
HasKey(text, key) ==
  \E i \in 1..(Len(text) - 1) : text[i] = Tok("str", key) /\ text[i + 1] = Colon
\* the text has a member named key whose value is null
HasNull(text, key) ==
  \E i \in 1..(Len(text) - 2) :
    text[i] = Tok("str", key) /\ text[i + 1] = Colon /\ text[i + 2] = Tok("lit", "null")

\* C11: in the request the sandbox is given, value is null when the caller
\* omitted value; there is no previousValue member when the caller omitted
\* previousValue and there is a previousValue member that is null when the
\* caller passed null; and no call that differs only in previousValue gives
\* the same request bytes.
C11_AbsencePreserved ==
  Ran =>
    LET text == Decode(ended.atRun)
        r == ended.req
    IN /\ r.value.t = "undefined" => HasNull(text, "value")
       /\ r.previousValue.t = "undefined" => ~HasKey(text, "previousValue")
       /\ r.previousValue.t = "null" => HasNull(text, "previousValue")
       /\ \A q \in Requests :
            (q.expression = r.expression /\ q.value = r.value
               /\ q.previousValue # r.previousValue)
              => bytesOf[q] # ended.atRun

\* C11 witness: the sandbox has been run on a request whose previousValue is
\* null, and one whose previousValue is omitted differs from it only there.
C11_Witness ==
  /\ Ran
  /\ ended.req.value.t = "undefined"
  /\ ended.req.previousValue.t = "null"
  /\ \E q \in Requests :
       /\ q.expression = ended.req.expression
       /\ q.value = ended.req.value
       /\ q.previousValue.t = "undefined"

\* C12: when evaluator.wasm is missing, requiring a module fails at the read
\* of the file, and in that process nothing is ever compiled or instantiated,
\* no evaluate or create call is made and no session reaches the sandbox.
C12_ArtifactNotFound ==
  ~artifact =>
    /\ \A m \in Modules :
         /\ file[m] = IF reads[m] = 0 THEN "unloaded" ELSE "missing"
         /\ loadCalls[m] = 0
    /\ promises = <<>>
    /\ nInst = 0
    /\ \A t \in Tasks : kind[t] = "none" /\ instCalls[t] = 0 /\ _instance[t] = 0
    /\ stack = <<>> /\ nSessions = 0 /\ ~Ended

\* C12 witness: evaluator.wasm is missing and both modules have been required
\* and have failed.
C12_Witness ==
  ~artifact /\ \A m \in Modules : reads[m] = 1 /\ file[m] = "missing"

\* C13, in every step: while a session is on the call stack, the instance,
\* the memory reference, the output slot and the allocated regions of every
\* handle other than the one the innermost session is on do not change.
C13_Frame ==
  \A b \in Tasks :
    (stack # <<>> /\ Top.id # b /\ pc[b] = "ready") =>
      /\ _instance'[b] = _instance[b]
      /\ _memory'[b] = _memory[b]
      /\ _outputStr'[b] = _outputStr[b]
      /\ outstanding'[b] = outstanding[b]

\* C13, in every state: what a call on a handle returns or throws after
\* parsing is decided by the slot of that handle when the call began and by
\* the bytes evaluator.output got during the call.
C13_OwnResult ==
  (Parsed /\ ended.form = "handle" /\ ~ended.reentered) =>
    ended.outcome = Result(IF ended.nOutput = 0 THEN ended.slot0
                           ELSE output(ended.lastOutput))

\* C13: an evaluate call on one handle leaves the instance, the memory
\* reference and the output slot of every other handle as they were, and the
\* result of a call on a handle depends on that handle and that call alone.
C13_Independent == []C13_OwnResult /\ [][C13_Frame]_vars

\* C13 witness: of two handles, a call on one has run the sandbox, got output
\* and ended, while the slot of the other holds the text an earlier call on
\* it left there.
C13_Witness ==
  /\ Parsed /\ Sequential /\ ended.form = "handle" /\ ended.nOutput > 0
  /\ \E b \in Tasks :
       /\ b # ended.id
       /\ pc[b] = "ready"
       /\ _outputStr[b] # StrNull
       /\ _outputStr[b] # output(ended.lastOutput)

\* C14: the memory reference of a call is not set while the module is loaded
\* and instantiated, and whenever the sandbox calls evaluator.output, during
\* run() or during instantiation, the callback finds the memory reference set.
C14_MemoryPopulated ==
  /\ \A t \in Tasks : pc[t] \in {"awaitModule", "awaitInstance"} => _memory[t] = 0
  /\ \A i \in 1..Len(ended.memAtOutput) : ended.memAtOutput[i] # 0
  /\ startCall.id # 0 => startCall.memory # 0

\* the calls in which code of the sandbox runs and may grow its memory, which
\* detaches the buffer of every view taken before
InSandbox == {"alloc", "run", "free", "output"}

\* C15: every write and read of sandbox memory goes through a view taken
\* after the last call in which the sandbox ran: the view the request is
\* written through is taken after alloc has returned, and the view an output
\* is read through is taken inside that call of the output callback.
C15_FreshViews ==
  Ended =>
    \A i \in 1..Len(ended.calls) :
      ended.calls[i] \in {"write", "read"} =>
        \E v \in 1..(i - 1) :
          /\ ended.calls[v] = "view"
          /\ \A k \in (v + 1)..(i - 1) : ended.calls[k] \notin InSandbox
          /\ ended.calls[i] = "write" => \E a \in 1..(v - 1) : ended.calls[a] = "alloc"
          /\ ended.calls[i] = "read" => v > 1 /\ ended.calls[v - 1] = "output"

\* C15 witness: a session has written its request and run() has called
\* evaluator.output twice before returning.
C15_Witness ==
  /\ Parsed
  /\ Has(ended.calls, "write")
  /\ ended.nOutput = 2
  /\ Cardinality({i \in 1..Len(ended.calls) : ended.calls[i] = "read"}) = 2

\* the place of the first call named c in calls (0: none)
First(calls, c) ==
  IF Has(calls, c)
    THEN CHOOSE i \in 1..Len(calls) :
           calls[i] = c /\ \A k \in 1..(i - 1) : calls[k] # c
  ELSE 0

\* C16: when run(pointer, length) is called the region it names holds the
\* bytes of the serialized request, which decode to the text JSON.stringify
\* produced; pointer is what alloc returned and length the length alloc was
\* asked for; free comes after run and all its calls of evaluator.output, and
\* the response is parsed after free.
C16_RequestTransfer ==
  Ran =>
    LET text == JsonStringify(inputJson(ended.req, Now))
        calls == ended.calls
    IN /\ ended.atRun = Encode(text)
       /\ Decode(ended.atRun) = text
       /\ ended.runArgs[1] = ended.allocRes[1][1]
       /\ ended.runArgs[2] = ended.allocArgs[1]
       /\ ended.allocArgs[1] = Len(Encode(text))
       /\ First(calls, "alloc") < First(calls, "write")
       /\ First(calls, "write") < First(calls, "run")
       /\ \A i \in 1..Len(calls) :
            /\ calls[i] = "free" =>
                 /\ First(calls, "run") < i
                 /\ \A k \in (i + 1)..Len(calls) : calls[k] # "output"
                 /\ ended.freeArgs = <<ended.runArgs>>
            /\ calls[i] = "parse" => Has(calls, "free") /\ First(calls, "free") < i

\* C16 witness: a session on the request with all three arguments got a
\* region from alloc, ran the sandbox, freed the region and parsed the output.
C16_Witness ==
  /\ Parsed
  /\ ended.req.previousValue.t = "object"
  /\ ended.allocRes[1][1] \in Ptrs
  /\ ended.nOutput > 0
  /\ ended.freeArgs # <<>>

\* how the one-shot evaluate ends on the request and the sandbox behaviour of
\* the session that ended: its output variable is undefined when run() is
\* called (line 56 of evaluate.js)
OneShotOutcome ==
  IF ~Has(ended.calls, "run") THEN Throw("TypeError", "JSON.stringify")
  ELSE IF ~Has(ended.calls, "parse") THEN Throw("RuntimeError", "unreachable")
  ELSE Result(IF ended.nOutput = 0 THEN StrUndefined ELSE output(ended.lastOutput))

\* C17: a call on a handle, after whatever calls came before on that handle,
\* ends as the one-shot evaluate ends on the same request and the same
\* behaviour of the sandbox: the same returned data, or a failure of the same
\* kind with the same message.
C17_SameAsOneShot ==
  (Ended /\ ended.form = "handle") => ended.outcome = OneShotOutcome

\* C18: during one evaluate call the output variable is assigned by the
\* output callback at most once, however many times the sandbox calls it.
C18_SingleShot == Ended => ended.slotWrites <= 1

\* C19: a handle create() has returned has its instance and its memory
\* reference set, and so has every handle an evaluate call runs or ran on;
\* while create() waits for the module or the instance there is no handle and
\* no session on it.
C19_HandleSet ==
  /\ \A h \in Tasks :
       /\ pc[h] = "ready" => kind[h] = "create" /\ _instance[h] # 0 /\ _memory[h] # 0
       /\ (kind[h] = "create" /\ pc[h] # "ready") =>
            /\ ~InFlight(h)
            /\ ended.id # h
            /\ _instance[h] = 0 /\ _memory[h] = 0
  /\ \A i \in 1..Len(stack) :
       stack[i].form = "handle" =>
         _instance[stack[i].id] # 0 /\ _memory[stack[i].id] # 0
  /\ ended.form = "handle" => _instance[ended.id] # 0 /\ _memory[ended.id] # 0

\* C19 witness: beside a create() that is still waiting, a handle has been
\* returned and a call on it has run the sandbox, whose output callback found
\* the memory reference.
C19_Witness ==
  /\ Ran /\ ended.form = "handle"
  /\ ended.memAtOutput # <<>>
  /\ pc[ended.id] = "ready"
  /\ \E t \in Tasks : kind[t] = "create" /\ pc[t] = "awaitInstance"

====
